---------------------------- MODULE Spec2Model ----------------------------
(***************************************************************************)
(* Model of config/index.js of code-gov-api: getConfig(env) resolves the   *)
(* runtime configuration from process.env, the Cloud Foundry application   *)
(* environment (cfenv) and the local .env file (dotenv).                   *)
(*                                                                         *)
(* JavaScript values are records [t |-> <type tag>, v |-> <payload>], so   *)
(* that undefined, "", false, "5000" and 5000 stay distinct values.        *)
(***************************************************************************)
EXTENDS Integers, Sequences, FiniteSets, TLC

(* ------------------------------ bounds -------------------------------- *)

\* number of getConfig calls made in one run
MaxCalls == 2

\* number of variables the .env file defines
MaxFileVars == 1

\* length of the application URI list of the platform binding
MaxUris == 2

(* -------------------------- JavaScript values ------------------------- *)

Undefined == [t |-> "undefined", v |-> ""]

Null == [t |-> "null", v |-> ""]

NaN == [t |-> "NaN", v |-> ""]

Str(s) == [t |-> "string", v |-> s]

Num(n) == [t |-> "number", v |-> n]

Bool(b) == [t |-> "boolean", v |-> b]

Arr(seq) == [t |-> "array", v |-> seq]

Obj(fields) == [t |-> "object", v |-> fields]

RegExp(src) == [t |-> "regexp", v |-> src]

\* the TypeError raised by a property read on null
TypeError == [t |-> "throw", v |-> "TypeError"]

\* ToBoolean, as applied by ?: and &&
Truthy(x) ==
  CASE x.t = "undefined" -> FALSE
    [] x.t = "null"      -> FALSE
    [] x.t = "NaN"       -> FALSE
    [] x.t = "string"    -> x.v # ""
    [] x.t = "number"    -> x.v # 0
    [] x.t = "boolean"   -> x.v
    [] OTHER             -> TRUE

\* a && b yields a when a is falsy, b otherwise
JsAnd(a, b) == IF Truthy(a) THEN b ELSE a

\* a === 'lit'
StrictEqStr(a, lit) == Bool(a.t = "string" /\ a.v = lit)

\* ToString, as applied inside a template literal `${x}`
TemplateStr(x) ==
  CASE x.t = "string"    -> x.v
    [] x.t = "number"    -> ToString(x.v)
    [] x.t = "undefined" -> "undefined"
    [] x.t = "null"      -> "null"
    [] x.t = "NaN"       -> "NaN"
    [] OTHER             -> "[object]"

\* arr[i] with a zero-based index: undefined past the end
ArrAt(arr, i) == IF i + 1 <= Len(arr.v) THEN Str(arr.v[i + 1]) ELSE Undefined

Digits == <<"0", "1", "2", "3", "4", "5", "6", "7", "8", "9">>

IsDigit(c) == \E d \in 1..10 : Digits[d] = c

DigitVal(c) == (CHOOSE d \in 1..10 : Digits[d] = c) - 1

RECURSIVE SkipSpaces(_)
SkipSpaces(s) ==
  IF Len(s) > 0 /\ Head(s) = " " THEN SkipSpaces(Tail(s)) ELSE s

RECURSIVE DigitPrefix(_, _, _)
\* value of the longest decimal prefix of s; acc/seen carry the scan state
DigitPrefix(s, acc, seen) ==
  IF Len(s) > 0 /\ IsDigit(Head(s))
    THEN DigitPrefix(Tail(s), 10 * acc + DigitVal(Head(s)), TRUE)
    ELSE IF seen THEN Num(acc) ELSE NaN

\* parseInt(string): leading blanks, optional sign, decimal digits
parseInt(x) ==
  LET s == SkipSpaces(TemplateStr(x))
      neg == Len(s) > 0 /\ Head(s) = "-"
      body == IF Len(s) > 0 /\ Head(s) \in {"-", "+"} THEN Tail(s) ELSE s
      r == DigitPrefix(body, 0, FALSE)
  IN IF r.t = "number" /\ neg THEN Num(0 - r.v) ELSE r


(* ----------------------------- process.env ---------------------------- *)

\* the environment variables config/index.js reads
EnvVars ==
  {"LOGGER_LEVEL", "PORT", "ELASTICSEARCH_SERVICE_NAME", "ES_URI", "API_URL",
   "USE_HSTS", "HSTS_MAX_AGE", "HSTS_PRELOAD", "HSTS_SUBDOMAINS",
   "GET_REMOTE_METADATA", "REMOTE_METADATA_LOCATION", "NODE_ENV"}

\* dotenv.config: every variable of the file that process.env does not
\* define yet is added; a variable already defined (even as "") is kept
dotenvConfig(env, file) ==
  [k \in EnvVars |-> IF env[k] = Undefined THEN file[k] ELSE env[k]]

(* --------------------- the Cloud Foundry environment ------------------ *)

\* cloudFoundryEnv.getServiceCreds(name): the credentials object of the
\* bound service of that name, null when no such service is bound
getServiceCreds(cloudFoundryEnv, name) ==
  IF name \in DOMAIN cloudFoundryEnv.services
    THEN cloudFoundryEnv.services[name]
    ELSE Null

(* ------------------------- the resolver's parts ----------------------- *)

\* path.dirname(__dirname): the project root
ProjectRoot == "/app"

\* path.join(path.dirname(__dirname), rel)
pathJoin(dir, rel) ==
  IF Len(rel) >= 2 /\ SubSeq(rel, 1, 2) = "./"
    THEN dir \o "/" \o SubSeq(rel, 3, Len(rel))
    ELSE dir \o "/" \o rel

\* getElasticsearchUri with the ES_URI override applied in every mode
getElasticsearchUriEnvFirst(cloudFoundryEnv, env) ==
  IF Truthy(env["ES_URI"])
    THEN env["ES_URI"]
    ELSE IF cloudFoundryEnv.isLocal
           THEN Str("http://localhost:9200")
           ELSE LET creds == getServiceCreds(cloudFoundryEnv, "code_gov_elasticsearch")
                IN IF creds.t # "object"
                     THEN TypeError
                     ELSE IF Truthy(creds.v.uri)
                            THEN creds.v.uri
                            ELSE Str("http://localhost:9200")

getElasticsearchUri(cloudFoundryEnv, env) ==
  IF ~cloudFoundryEnv.isLocal
    THEN LET serviceName ==
               IF Truthy(env["ELASTICSEARCH_SERVICE_NAME"])
                 THEN env["ELASTICSEARCH_SERVICE_NAME"]
                 ELSE Str("code_gov_elasticsearch")
             elasticSearchCredentials ==
               getServiceCreds(cloudFoundryEnv, serviceName.v)
         IN IF elasticSearchCredentials.t # "object"
              THEN TypeError
              ELSE IF Truthy(elasticSearchCredentials.v.uri)
                     THEN elasticSearchCredentials.v.uri
                     ELSE Str("http://localhost:9200")
    ELSE IF Truthy(env["ES_URI"])
           THEN env["ES_URI"]
           ELSE Str("http://localhost:9200")

getPort(cloudFoundryEnv, env) ==
  IF Truthy(env["PORT"])
    THEN env["PORT"]
    ELSE IF Truthy(cloudFoundryEnv.port)
           THEN cloudFoundryEnv.port
           ELSE Num(3000)

getAppFilesDirectories(env) ==
  IF Truthy(JsAnd(env["GET_REMOTE_METADATA"], env["REMOTE_METADATA_LOCATION"]))
    THEN env["REMOTE_METADATA_LOCATION"]
    ELSE IF StrictEqStr(env["NODE_ENV"], "testing").v
           THEN Str(pathJoin(ProjectRoot, "config/testing_agency_metadata.json"))
           ELSE Str(pathJoin(ProjectRoot, "config/agency_metadata.json"))

\* jsonfile.readFileSync(file): the document, kept opaque but for its origin
readFileSync(file) == [source |-> file, host |-> Undefined]

getSwaggerConf(isProd, apiUrl) ==
  LET SWAGGER_DOCUMENT ==
        IF Truthy(isProd)
          THEN readFileSync(pathJoin(ProjectRoot, "./swagger-prod.json"))
          ELSE readFileSync(pathJoin(ProjectRoot, "./swagger.json"))
  IN Obj([SWAGGER_DOCUMENT EXCEPT
            !.host = IF Truthy(apiUrl) THEN apiUrl ELSE Str("api.code.gov")])

\* the default of getConfig's parameter
DefaultEnv(arg) == IF arg = Undefined THEN Str("development") ELSE arg

prod_envs == <<"prod", "production">>

\* config.prod_envs.includes(env)
IsProd(arg) ==
  LET env == DefaultEnv(arg)
  IN Bool(env.t = "string" /\ \E i \in 1..Len(prod_envs) : prod_envs[i] = env.v)

LoggerLevel(env, isProd) ==
  IF Truthy(env["LOGGER_LEVEL"])
    THEN env["LOGGER_LEVEL"]
    ELSE IF Truthy(isProd) THEN Str("INFO") ELSE Str("DEBUG")

TERM_TYPES_TO_SEARCH ==
  Arr(<<"name", "agency.name", "agency.acronym", "tags", "languages">>)

VALID_QUERY_PARAMS ==
  Arr(<<"license", "name", "agency.name", "permissions.usageType",
        "agency.acronym", "status", "vcs", "measurementType.method",
        "language", "created", "lastModified", "metadataLastUpdated">>)

UPDATE_REPO_REGEX == RegExp("(1\\.0)(\\.\\d)?")

UseHsts(env, isProd) ==
  IF Truthy(env["USE_HSTS"]) THEN StrictEqStr(env["USE_HSTS"], "true") ELSE isProd

HstsMaxAge(env) ==
  IF Truthy(env["HSTS_MAX_AGE"]) THEN parseInt(env["HSTS_MAX_AGE"]) ELSE Num(31536000)

\* process.env.X && process.env.X === 'true'
EnvFlag(env, name) == JsAnd(env[name], StrictEqStr(env[name], "true"))

ApiUrl(cloudFoundryEnv, env, port) ==
  IF Truthy(env["API_URL"])
    THEN env["API_URL"]
    ELSE IF Truthy(cloudFoundryEnv.app.uris)
           THEN Str(TemplateStr(ArrAt(cloudFoundryEnv.app.uris, 0)) \o "/api")
           ELSE Str("0.0.0.0:" \o TemplateStr(port))

\* AllowedDomains built from the default port instead of the resolved one
AllowedDomainsDefaultPort(port, isProd) ==
  Arr(<<"http://localhost:3000", "http://127.0.0.1:3000",
        IF Truthy(isProd) THEN "https://api.data.gov" ELSE "*">>)

AllowedDomains(port, isProd) ==
  Arr(Append(<<"http://localhost:" \o TemplateStr(port),
               "http://127.0.0.1:" \o TemplateStr(port)>>,
             IF Truthy(isProd) THEN "https://api.data.gov" ELSE "*"))

\* the .env file loaded whatever the platform
LoadsDotenvAlways(cloudFoundryEnv) == TRUE

\* whether getConfig loads the .env file
LoadsDotenv(cloudFoundryEnv) == cloudFoundryEnv.isLocal

\* getConfig's body with the .env file loaded after LOGGER_LEVEL is resolved
StatementOrderLateLoad ==
  <<"isProd", "LOGGER_LEVEL", "dotenv", "static", "HSTS", "PORT",
    "GET_REMOTE_METADATA", "ES_HOST", "files", "SWAGGER_DOCUMENT",
    "ALLOWED_DOMAINS", "return">>

\* the statements of getConfig's body, in program order
StatementOrder ==
  <<"isProd", "dotenv", "LOGGER_LEVEL", "static", "HSTS", "PORT",
    "GET_REMOTE_METADATA", "ES_HOST", "files", "SWAGGER_DOCUMENT",
    "ALLOWED_DOMAINS", "return">>

\* the statement that follows statement label
After(label) ==
  LET i == CHOOSE j \in 1..Len(StatementOrder) : StatementOrder[j] = label
  IN StatementOrder[i + 1]

ConfigKeys ==
  {"prod_envs", "isProd", "LOGGER_LEVEL", "TERM_TYPES_TO_SEARCH",
   "VALID_QUERY_PARAMS", "UPDATE_REPO_REGEX", "USE_HSTS", "HSTS_MAX_AGE",
   "HSTS_PRELOAD", "HSTS_SUBDOMAINS", "PORT", "GET_REMOTE_METADATA", "ES_HOST",
   "AGENCY_ENDPOINTS_FILE", "SWAGGER_DOCUMENT", "ALLOWED_DOMAINS"}

\* let config = { prod_envs: [...] }: every other property reads undefined
NewConfig ==
  [k \in ConfigKeys |-> IF k = "prod_envs" THEN Arr(prod_envs) ELSE Undefined]

(* ------------------------------ inputs -------------------------------- *)

\* the values an environment variable is given in the model
EnvValues(k) ==
  CASE k = "LOGGER_LEVEL"               -> {"WARN"}
    [] k = "PORT"                       -> {"5000"}
    [] k = "ELASTICSEARCH_SERVICE_NAME" -> {"my_es"}
    [] k = "ES_URI"                     -> {"http://es.local:9200", ""}
    [] k = "API_URL"                    -> {"api.example.gov"}
    [] k = "USE_HSTS"                   -> {"true", "false"}
    [] k = "HSTS_MAX_AGE"               -> {"600", "forever"}
    [] k = "HSTS_PRELOAD"               -> {"true", "TRUE", "1", ""}
    [] k = "HSTS_SUBDOMAINS"            -> {"true", ""}
    [] k = "GET_REMOTE_METADATA"        -> {"true", "false"}
    [] k = "REMOTE_METADATA_LOCATION"   -> {"https://example.gov/metadata.json"}
    [] k = "NODE_ENV"                   -> {"testing", "production"}

\* the values the .env file gives a variable
FileValues(k) ==
  CASE k = "LOGGER_LEVEL" -> {"ERROR"}
    [] k = "PORT"         -> {"4000"}
    [] OTHER              -> EnvValues(k) \ {""}

\* the tables that define at most the variables vars: process.env
\* tables with the values of EnvValues, .env tables with those of FileValues
TablesOver(vars, ofFile) ==
  LET vals(k) == IF ofFile THEN FileValues(k) ELSE EnvValues(k)
      all == {Undefined} \cup {Str(s) : s \in UNION {vals(k) : k \in vars}}
      picks == {a \in [vars -> all] :
                  \A k \in vars : a[k] = Undefined \/ a[k].v \in vals(k)}
  IN {[k \in EnvVars |-> IF k \in vars THEN a[k] ELSE Undefined] : a \in picks}

DefinedVars(table) == {k \in EnvVars : table[k] # Undefined}

\* the names getConfig is called with; undefined takes the default
EnvArgs == {Undefined, Str("prod"), Str("production"), Str("Production")}

ServiceNames == {"code_gov_elasticsearch", "my_es"}

\* what a service name may be bound to: nothing, credentials without a
\* uri, credentials with one
CredsOf(name) ==
  {Null, Obj([uri |-> Undefined]), Obj([uri |-> Str("http://" \o name \o ".internal:9200")])}

Hosts == {"api.cloud.gov", "alt.cloud.gov"}

UriLists == {Arr(l) : l \in UNION {[1..n -> Hosts] : n \in 0..MaxUris}}

\* the application environments in which the fields of `varied` take every
\* value and the others the value of an app bound to the default service
BindingsOver(varied) ==
  {[isLocal |-> l, port |-> p, app |-> [uris |-> u], services |-> s] :
     l \in BOOLEAN,
     p \in IF "port" \in varied THEN {Undefined, Num(8080)} ELSE {Undefined},
     u \in IF "uris" \in varied THEN {Undefined} \cup UriLists ELSE {Undefined},
     s \in IF "services" \in varied
             THEN {f \in [ServiceNames -> UNION {CredsOf(n) : n \in ServiceNames}] :
                     \A n \in ServiceNames : f[n] \in CredsOf(n)}
             ELSE {[n \in ServiceNames |->
                      IF n = "code_gov_elasticsearch"
                        THEN Obj([uri |-> Str("http://" \o n \o ".internal:9200")])
                        ELSE Null]}}

\* The settings are resolved from disjoint groups of inputs; a run varies
\* the inputs of one group and leaves the others at their defaults.
InputFamilies ==
  {[vars |-> {"LOGGER_LEVEL", "USE_HSTS"}, binding |-> {}, names |-> TRUE],
   [vars |-> {"HSTS_MAX_AGE", "HSTS_PRELOAD", "HSTS_SUBDOMAINS"},
    binding |-> {}, names |-> FALSE],
   [vars |-> {"PORT", "API_URL"}, binding |-> {"port", "uris"}, names |-> TRUE],
   [vars |-> {"ELASTICSEARCH_SERVICE_NAME", "ES_URI"},
    binding |-> {"services"}, names |-> FALSE],
   [vars |-> {"GET_REMOTE_METADATA", "REMOTE_METADATA_LOCATION", "NODE_ENV"},
    binding |-> {}, names |-> FALSE]}

(* ------------------------------- state -------------------------------- *)

VARIABLES
  processEnv,       \* process.env, restricted to EnvVars
  dotenvFile,       \* the variables the .env file defines
  cloudFoundryEnv,  \* what cfenv.getAppEnv() returns
  envArg,           \* the argument getConfig is called with
  pc,               \* "idle", or the statement getConfig executes next
  config,           \* the config object of the call in progress
  results,          \* the outcomes of the calls made so far
  loads,            \* dotenv.config calls of the current call
  reads,            \* process.env variables the current call has read
  envAtCall         \* process.env as it was when the current call began

vars ==
  <<processEnv, dotenvFile, cloudFoundryEnv, envArg, pc, config, results,
    loads, reads, envAtCall>>

Init ==
  /\ \E fam \in InputFamilies :
       /\ processEnv \in TablesOver(fam.vars, FALSE)
       /\ dotenvFile \in {f \in TablesOver(fam.vars, TRUE) :
                            Cardinality(DefinedVars(f)) <= MaxFileVars}
       /\ cloudFoundryEnv \in BindingsOver(fam.binding)
       /\ envArg \in IF fam.names THEN EnvArgs ELSE {Undefined}
  /\ pc = "idle"
  /\ config = NewConfig
  /\ results = <<>>
  /\ loads = 0
  /\ reads = {}
  /\ envAtCall = processEnv

\* getConfig(env) is entered: lines 79-84
Call ==
  /\ pc = "idle"
  /\ Len(results) < MaxCalls
  /\ config' = NewConfig
  /\ loads' = 0
  /\ reads' = {}
  /\ envAtCall' = processEnv
  /\ pc' = StatementOrder[1]
  /\ UNCHANGED <<processEnv, dotenvFile, cloudFoundryEnv, envArg, results>>

\* a statement that assigns config[key] from the variables `read`
Assign(label, key, value, read) ==
  /\ pc = label
  /\ config' = [config EXCEPT ![key] = value]
  /\ reads' = reads \cup read
  /\ pc' = After(label)
  /\ UNCHANGED <<processEnv, dotenvFile, cloudFoundryEnv, envArg, results,
                 loads, envAtCall>>

SetIsProd == Assign("isProd", "isProd", IsProd(envArg), {})

LoadDotenv ==
  /\ pc = "dotenv"
  /\ IF LoadsDotenv(cloudFoundryEnv)
       THEN /\ processEnv' = dotenvConfig(processEnv, dotenvFile)
            /\ loads' = loads + 1
       ELSE UNCHANGED <<processEnv, loads>>
  /\ pc' = After("dotenv")
  /\ UNCHANGED <<dotenvFile, cloudFoundryEnv, envArg, config, results, reads,
                 envAtCall>>

SetLoggerLevel ==
  Assign("LOGGER_LEVEL", "LOGGER_LEVEL", LoggerLevel(processEnv, config["isProd"]),
         {"LOGGER_LEVEL"})

SetStatic ==
  /\ pc = "static"
  /\ config' = [config EXCEPT !["TERM_TYPES_TO_SEARCH"] = TERM_TYPES_TO_SEARCH,
                              !["VALID_QUERY_PARAMS"] = VALID_QUERY_PARAMS,
                              !["UPDATE_REPO_REGEX"] = UPDATE_REPO_REGEX]
  /\ pc' = After("static")
  /\ UNCHANGED <<processEnv, dotenvFile, cloudFoundryEnv, envArg, results,
                 loads, reads, envAtCall>>

SetHsts ==
  /\ pc = "HSTS"
  /\ config' = [config EXCEPT
                  !["USE_HSTS"] = UseHsts(processEnv, config["isProd"]),
                  !["HSTS_MAX_AGE"] = HstsMaxAge(processEnv),
                  !["HSTS_PRELOAD"] = EnvFlag(processEnv, "HSTS_PRELOAD"),
                  !["HSTS_SUBDOMAINS"] = EnvFlag(processEnv, "HSTS_SUBDOMAINS")]
  /\ reads' = reads \cup {"USE_HSTS", "HSTS_MAX_AGE", "HSTS_PRELOAD", "HSTS_SUBDOMAINS"}
  /\ pc' = After("HSTS")
  /\ UNCHANGED <<processEnv, dotenvFile, cloudFoundryEnv, envArg, results,
                 loads, envAtCall>>

SetPort == Assign("PORT", "PORT", getPort(cloudFoundryEnv, processEnv), {"PORT"})

SetGetRemoteMetadata ==
  Assign("GET_REMOTE_METADATA", "GET_REMOTE_METADATA",
         EnvFlag(processEnv, "GET_REMOTE_METADATA"), {"GET_REMOTE_METADATA"})

\* line 126; the TypeError of getElasticsearchUri ends the call
SetEsHost ==
  /\ pc = "ES_HOST"
  /\ reads' = reads \cup (IF cloudFoundryEnv.isLocal
                            THEN {"ES_URI"}
                            ELSE {"ELASTICSEARCH_SERVICE_NAME"})
  /\ LET uri == getElasticsearchUri(cloudFoundryEnv, processEnv)
     IN IF uri = TypeError
          THEN /\ results' = Append(results, [outcome |-> "TypeError", config |-> config])
               /\ pc' = "idle"
               /\ UNCHANGED config
          ELSE /\ config' = [config EXCEPT !["ES_HOST"] = uri]
               /\ pc' = After("ES_HOST")
               /\ UNCHANGED results
  /\ UNCHANGED <<processEnv, dotenvFile, cloudFoundryEnv, envArg, loads, envAtCall>>

\* line 128; && reads REMOTE_METADATA_LOCATION only after a truthy
\* GET_REMOTE_METADATA, and NODE_ENV is read on the else branch only
SetAppFiles ==
  Assign("files", "AGENCY_ENDPOINTS_FILE", getAppFilesDirectories(processEnv),
         {"GET_REMOTE_METADATA"}
           \cup (IF Truthy(processEnv["GET_REMOTE_METADATA"])
                   THEN {"REMOTE_METADATA_LOCATION"} ELSE {})
           \cup (IF Truthy(JsAnd(processEnv["GET_REMOTE_METADATA"],
                                 processEnv["REMOTE_METADATA_LOCATION"]))
                   THEN {} ELSE {"NODE_ENV"}))

SetSwaggerDocument ==
  Assign("SWAGGER_DOCUMENT", "SWAGGER_DOCUMENT",
         getSwaggerConf(config["isProd"],
                        ApiUrl(cloudFoundryEnv, processEnv, config["PORT"])),
         {"API_URL"})

SetAllowedDomains ==
  Assign("ALLOWED_DOMAINS", "ALLOWED_DOMAINS",
         AllowedDomains(config["PORT"], config["isProd"]), {})

\* return config
Return ==
  /\ pc = "return"
  /\ results' = Append(results, [outcome |-> "returned", config |-> config])
  /\ pc' = "idle"
  /\ UNCHANGED <<processEnv, dotenvFile, cloudFoundryEnv, envArg, config,
                 loads, reads, envAtCall>>

Next ==
  \/ Call
  \/ SetIsProd
  \/ LoadDotenv
  \/ SetLoggerLevel
  \/ SetStatic
  \/ SetHsts
  \/ SetPort
  \/ SetGetRemoteMetadata
  \/ SetEsHost
  \/ SetAppFiles
  \/ SetSwaggerDocument
  \/ SetAllowedDomains
  \/ Return

Spec == Init /\ [][Next]_vars

(* ------------------------------ claims -------------------------------- *)

\* the records the calls made so far have returned
Records ==
  {results[i].config : i \in {j \in 1..Len(results) : results[j].outcome = "returned"}}

\* a variable counts as set when process.env holds a non-empty string for it
IsSet(name) == processEnv[name].t = "string" /\ processEnv[name].v # ""

LocalhostEs == Str("http://localhost:9200")

\* C1: getConfig never fails: every call returns a configuration record,
\* whatever the environment name, the environment variables and the
\* platform binding (with or without a bound Elasticsearch service).
C1_NeverFails == \A i \in 1..Len(results) : results[i].outcome = "returned"

\* C2: every setting of a returned record has a defined, non-null value.
C2_EveryFieldDefined ==
  \A r \in Records : \A k \in ConfigKeys : r[k].t \notin {"undefined", "null"}

\* C3: AGENCY_ENDPOINTS_FILE is REMOTE_METADATA_LOCATION exactly when
\* GET_REMOTE_METADATA is the literal "true" and REMOTE_METADATA_LOCATION is
\* present; otherwise it is the testing path when NODE_ENV is "testing" and
\* the standard path in every other case.
C3_MetadataPath ==
  \A r \in Records :
    r["AGENCY_ENDPOINTS_FILE"] =
      IF processEnv["GET_REMOTE_METADATA"] = Str("true")
           /\ IsSet("REMOTE_METADATA_LOCATION")
        THEN processEnv["REMOTE_METADATA_LOCATION"]
        ELSE IF processEnv["NODE_ENV"] = Str("testing")
               THEN Str("/app/config/testing_agency_metadata.json")
               ELSE Str("/app/config/agency_metadata.json")

\* C4: HSTS_PRELOAD and HSTS_SUBDOMAINS are the boolean true exactly when
\* their variable is the string "true" and the boolean false for every
\* other state of it (unset, "", "1", "TRUE", ...).
C4_HstsFlagsBoolean ==
  \A r \in Records :
    /\ r["HSTS_PRELOAD"] = Bool(processEnv["HSTS_PRELOAD"] = Str("true"))
    /\ r["HSTS_SUBDOMAINS"] = Bool(processEnv["HSTS_SUBDOMAINS"] = Str("true"))

\* C5: ES_HOST of a returned record: in local mode ES_URI when it is set
\* (to a non-empty string) and http://localhost:9200 otherwise; in
\* non-local mode the uri of the credentials bound under
\* ELASTICSEARCH_SERVICE_NAME (default 'code_gov_elasticsearch') when they
\* hold one and http://localhost:9200 when they do not; ES_URI is never read
\* in non-local mode.
C5_EsHost ==
  /\ \A r \in Records :
       IF cloudFoundryEnv.isLocal
         THEN r["ES_HOST"] = IF IsSet("ES_URI") THEN processEnv["ES_URI"] ELSE LocalhostEs
         ELSE LET name == IF IsSet("ELASTICSEARCH_SERVICE_NAME")
                            THEN processEnv["ELASTICSEARCH_SERVICE_NAME"].v
                            ELSE "code_gov_elasticsearch"
                  creds == cloudFoundryEnv.services[name]
              IN /\ creds.t = "object"
                 /\ r["ES_HOST"] = IF creds.v.uri.t = "string" /\ creds.v.uri.v # ""
                                     THEN creds.v.uri
                                     ELSE LocalhostEs
  /\ ~cloudFoundryEnv.isLocal => "ES_URI" \notin reads

\* a non-local call, with ES_URI set, that returned the uri of the service
\* named by ELASTICSEARCH_SERVICE_NAME
C5_Witness ==
  /\ ~cloudFoundryEnv.isLocal
  /\ IsSet("ES_URI")
  /\ processEnv["ELASTICSEARCH_SERVICE_NAME"] = Str("my_es")
  /\ cloudFoundryEnv.services["code_gov_elasticsearch"].t = "object"
  /\ \E r \in Records : r["ES_HOST"] = Str("http://my_es.internal:9200")

\* C6: PORT is the PORT variable's value when it is set, else the binding's
\* port when it has one, else 3000 - an integer in all three cases.
C6_PortInteger ==
  \A r \in Records :
    r["PORT"] = IF IsSet("PORT")
                  THEN parseInt(processEnv["PORT"])
                  ELSE IF cloudFoundryEnv.port.t = "number"
                         THEN cloudFoundryEnv.port
                         ELSE Num(3000)

\* C7: ALLOWED_DOMAINS of a returned record has exactly 3 entries:
\* http://localhost:<P>, http://127.0.0.1:<P>, P the PORT of that record,
\* then 'https://api.data.gov' when the environment name is exactly "prod"
\* or "production" (the record's isProd) and "*" otherwise.
C7_AllowedDomains ==
  \A r \in Records :
    LET name == IF envArg = Undefined THEN "development" ELSE envArg.v
        prod == name \in {"prod", "production"}
        P == IF r["PORT"].t = "number" THEN ToString(r["PORT"].v) ELSE r["PORT"].v
        list == r["ALLOWED_DOMAINS"]
    IN /\ r["isProd"] = Bool(prod)
       /\ list.t = "array"
       /\ Len(list.v) = 3
       /\ list.v[1] = "http://localhost:" \o P
       /\ list.v[2] = "http://127.0.0.1:" \o P
       /\ list.v[3] = IF prod THEN "https://api.data.gov" ELSE "*"

\* a production record whose port came from the PORT variable
C7_Witness ==
  /\ envArg = Str("production")
  /\ processEnv["PORT"] = Str("5000")
  /\ cloudFoundryEnv.port = Num(8080)
  /\ \E r \in Records :
       r["ALLOWED_DOMAINS"].v =
         <<"http://localhost:5000", "http://127.0.0.1:5000", "https://api.data.gov">>

\* C8: successive getConfig calls with the same name and binding have the
\* same outcome, also in local mode, where the first call loads the .env
\* file into process.env before the second call reads it.
C8_Idempotent ==
  \A i, j \in 1..Len(results) : results[i] = results[j]

\* two local calls, the first of which took LOGGER_LEVEL from the .env file
C8_Witness ==
  /\ Len(results) = 2
  /\ cloudFoundryEnv.isLocal
  /\ dotenvFile["LOGGER_LEVEL"] = Str("ERROR")
  /\ results[1].outcome = "returned"
  /\ results[1].config["LOGGER_LEVEL"] = Str("ERROR")
  /\ results[2].config["LOGGER_LEVEL"] = Str("ERROR")

C10_LoadBeforeReads ==
  /\ loads <= 1
  /\ cloudFoundryEnv.isLocal /\ reads # {} => loads = 1
  /\ cloudFoundryEnv.isLocal /\ loads = 1 =>
       processEnv = dotenvConfig(envAtCall, dotenvFile)
  /\ cloudFoundryEnv.isLocal /\ pc = "idle" /\ results # <<>> => loads = 1
  /\ cloudFoundryEnv.isLocal /\ loads = 0 => processEnv = envAtCall
  /\ ~cloudFoundryEnv.isLocal => loads = 0 /\ processEnv = envAtCall

\* a finished local call whose load changed process.env and that read
\* every variable of the local path
C10_Witness ==
  /\ cloudFoundryEnv.isLocal
  /\ pc = "idle"
  /\ Len(results) = 1
  /\ loads = 1
  /\ processEnv # envAtCall
  /\ reads = EnvVars \ {"ELASTICSEARCH_SERVICE_NAME"}

=============================================================================
